---- MODULE Spec2Model ----
(***************************************************************************)
(* A model of app.py, the resume analyser: analyze_documents and the       *)
(* helpers it calls (extract_text_from_pdf, analyze_with_gemini,           *)
(* create_pie_chart, get_learning_resources), run by one or by several     *)
(* request threads that share the process environment, the clock, the      *)
(* /tmp directory and pyplot's figure registry.                            *)
(*                                                                         *)
(* Strings are sequences of one-character strings, so that str.lower()    *)
(* and the iteration of a str are computed character by character.         *)
(***************************************************************************)
EXTENDS Integers, Sequences, FiniteSets, TLC

VARIABLES
    api_key,            \* os.environ has a non-empty GEMINI_API_KEY
    clock,              \* int(time.time())
    files,              \* /tmp/skill_chart_<t>.png : t |-> the counts the image shows
    figs,               \* pyplot's open figures, the current figure last
    pc,                 \* where each request thread is
    entry,              \* the function the thread was started in
    resume_pdf, jd_pdf, \* the arguments of analyze_documents
    resume_text, jd_text,
    prompt,             \* the two texts of the prompt sent to the model
    response,           \* what model.generate_content answered
    data,               \* what analyze_with_gemini returned
    matched_technical, missing_technical, match_score,
    chart_path,         \* <<>> is None, <<t>> is /tmp/skill_chart_<t>.png
    result,             \* what the entry function returned
    events              \* the calls on external collaborators, in order

vars == <<api_key, clock, files, figs, pc, entry, resume_pdf, jd_pdf, resume_text,
          jd_text, prompt, response, data, matched_technical, missing_technical,
          match_score, chart_path, result, events>>

-----------------------------------------------------------------------------
(* Bounds of the model. *)

\* the clock takes the values 0..MaxClock
MaxClock == 1
\* a reply lists at most this many required technical skills
MaxJdSkills == 3
\* a reply lists at most this many resume technical skills
MaxResumeSkills == 2

-----------------------------------------------------------------------------
(* Strings. *)

Str_Python     == <<"P", "y", "t", "h", "o", "n">>
Str_python     == <<"p", "y", "t", "h", "o", "n">>
Str_python_sp  == <<"p", "y", "t", "h", "o", "n", " ">>
Str_AWS        == <<"A", "W", "S">>
Str_terraform  == <<"t", "e", "r", "r", "a", "f", "o", "r", "m">>

\* the skill names a reply is built from, in the order a reply lists them
SkillNames == <<Str_Python, Str_python, Str_python_sp, Str_AWS, Str_terraform>>

\* str.lower() on one character
LowerChar(c) ==
    CASE c = "P" -> "p"
      [] c = "A" -> "a"
      [] c = "W" -> "w"
      [] c = "S" -> "s"
      [] OTHER   -> c

\* str.lower(): case is folded, whitespace is kept
Lower(s) == [i \in DOMAIN s |-> LowerChar(s[i])]

-----------------------------------------------------------------------------
(* JSON values, as json.loads builds them.                                 *)
(* An element of a list is [t, s]: t = "str" with its characters s, or     *)
(* t = "num".  A value under a key is [kind, items]: a list of elements, a *)
(* string (one element), a number, null, or no such key.                   *)

StrElem(s) == [t |-> "str", s |-> s]
NumElem    == [t |-> "num", s |-> <<>>]

JList(items) == [kind |-> "list",   items |-> items]
JStr(s)      == [kind |-> "str",    items |-> <<StrElem(s)>>]
JNum         == [kind |-> "num",    items |-> <<>>]
JNull        == [kind |-> "null",   items |-> <<>>]
JAbsent      == [kind |-> "absent", items |-> <<>>]

\* the JSON list of the names SkillNames[i], i in I, in the order of SkillNames
RECURSIVE NamesFrom(_, _)
NamesFrom(I, k) ==
    IF k > Len(SkillNames) THEN <<>>
    ELSE IF k \in I THEN <<StrElem(SkillNames[k])>> \o NamesFrom(I, k + 1)
    ELSE NamesFrom(I, k + 1)

SkillLists(max) ==
    { NamesFrom(I, 1) : I \in { J \in SUBSET (1 .. Len(SkillNames)) : Cardinality(J) <= max } }

Str_soft    == <<"t", "e", "a", "m">>
Str_advice  == <<"a", "d", "d">>

\* a reply of the hosted model: the call raises, or response.text is `body`,
\* inside a ```json fence or not; body is not JSON, a JSON array, or a JSON object
\* with the values v1..v4 under the four keys
Reply(kind, fenced, body, v1, v2, v3, v4) ==
    [kind |-> kind, fenced |-> fenced, body |-> body,
     jd_technical_skills |-> v1, jd_soft_skills |-> v2,
     resume_technical_skills |-> v3, suggestions |-> v4]

ObjectReply(v1, v2, v3, v4) == Reply("text", FALSE, "object", v1, v2, v3, v4)

NoReply      == Reply("none",   FALSE, "none",    JAbsent, JAbsent, JAbsent, JAbsent)
ReplyRaises  == Reply("raises", FALSE, "none",    JAbsent, JAbsent, JAbsent, JAbsent)
ReplyNotJson == Reply("text",   FALSE, "invalid", JAbsent, JAbsent, JAbsent, JAbsent)
ReplyArray   == Reply("text",   FALSE, "array",   JAbsent, JAbsent, JAbsent, JAbsent)

SoftList   == JList(<<StrElem(Str_soft)>>)
AdviceList == JList(<<StrElem(Str_advice)>>)

\* the replies of the expected shape: every pair of skill lists
ShapedReplies ==
    { ObjectReply(JList(jd), SoftList, JList(rs), AdviceList) :
        jd \in SkillLists(MaxJdSkills), rs \in SkillLists(MaxResumeSkills) }

JdOne == JList(<<StrElem(Str_Python)>>)
RsOne == JList(<<StrElem(Str_python)>>)

\* replies that are JSON but not of the expected shape, and a fenced one
OddReplies ==
    { Reply("text", TRUE, "object", JdOne, SoftList, RsOne, AdviceList),
      ObjectReply(JdOne, SoftList, RsOne, JList(<<>>)),
      ObjectReply(JdOne, JList(<<>>), RsOne, AdviceList),
      ObjectReply(JdOne, JAbsent, JAbsent, JAbsent),
      ObjectReply(JAbsent, SoftList, RsOne, AdviceList),
      ObjectReply(JStr(Str_AWS), SoftList, RsOne, AdviceList),
      ObjectReply(JdOne, SoftList, JStr(Str_AWS), AdviceList),
      ObjectReply(JdOne, SoftList, RsOne, JStr(Str_advice)),
      ObjectReply(JdOne, SoftList, RsOne, JNum),
      ObjectReply(JdOne, SoftList, RsOne, JNull),
      ObjectReply(JNum, SoftList, RsOne, AdviceList),
      ObjectReply(JdOne, JNull, RsOne, AdviceList),
      ObjectReply(JdOne, SoftList, JList(<<NumElem>>), AdviceList) }

Replies == {ReplyRaises, ReplyNotJson, ReplyArray} \cup ShapedReplies \cup OddReplies

-----------------------------------------------------------------------------
(* extract_text_from_pdf *)

\* extract_text_from_pdf keeps the text of this many leading pages
MaxPages == 5

NoPdf        == [kind |-> "none",    pages |-> 0]
CorruptPdf   == [kind |-> "corrupt", pages |-> 0]
PdfOf(n)     == [kind |-> "pdf",     pages |-> n]

\* the uploads a request can carry: nothing, an unreadable file, a short and a long PDF
Pdfs == {NoPdf, CorruptPdf, PdfOf(2), PdfOf(7)}

\* Python truthiness of an upload
Truthy(pdf) == pdf.kind # "none"

EmptyText    == [kind |-> "empty", pages |-> 0]
ErrorText    == [kind |-> "Error reading PDF", pages |-> 0]
TextOf(n)    == [kind |-> "text", pages |-> n]

\* an extract_text_from_pdf that lets fitz's exception out
ExtractTextFromPdf_Propagates(pdf_file) ==
    IF ~Truthy(pdf_file) THEN EmptyText
    ELSE IF pdf_file.kind = "corrupt" THEN [kind |-> "raised", pages |-> 0]
    ELSE TextOf(IF pdf_file.pages < MaxPages THEN pdf_file.pages ELSE MaxPages)

ExtractTextFromPdf(pdf_file) ==
    IF ~Truthy(pdf_file) THEN EmptyText
    ELSE IF pdf_file.kind = "corrupt" THEN ErrorText
    ELSE TextOf(IF pdf_file.pages < MaxPages THEN pdf_file.pages ELSE MaxPages)

-----------------------------------------------------------------------------
(* analyze_with_gemini *)

\* response.text.strip().replace('```json', '').replace('```', '')
CleanedResponse(reply) == [reply EXCEPT !.fenced = FALSE]

\* json.loads: what it returns, or "invalid" where it raises JSONDecodeError
JsonLoads(text) == IF text.fenced THEN "invalid" ELSE text.body

\* parsed_json.get(key, []) and the iteration of what it returns
Iterable(v) == v.kind \in {"list", "str", "absent"}

Iterate(v) ==
    CASE v.kind = "list" -> v.items
      [] v.kind = "str"  -> [i \in DOMAIN v.items[1].s |-> StrElem(<<v.items[1].s[i]>>)]
      [] OTHER           -> <<>>

\* the exception set(skill.lower() for skill in v) raises, or "none"
SkillSetError(v) ==
    IF ~Iterable(v) THEN "TypeError"
    ELSE IF \E i \in DOMAIN Iterate(v) : Iterate(v)[i].t # "str" THEN "AttributeError"
    ELSE "none"

\* set(skill.lower() for skill in v)
SkillSet(v) == { Lower(Iterate(v)[i].s) : i \in DOMAIN Iterate(v) }

\* the exception the try block of analyze_with_gemini ends in, or "none"
GeminiError(reply) ==
    IF reply.kind = "raises" THEN "ProviderError"
    ELSE LET parsed_json == JsonLoads(CleanedResponse(reply)) IN
         IF parsed_json = "invalid" THEN "JSONDecodeError"
         ELSE IF parsed_json = "array" THEN "AttributeError"
         ELSE IF SkillSetError(reply.jd_technical_skills) # "none"
              THEN SkillSetError(reply.jd_technical_skills)
         ELSE IF SkillSetError(reply.jd_soft_skills) # "none"
              THEN SkillSetError(reply.jd_soft_skills)
         ELSE SkillSetError(reply.resume_technical_skills)

Failure(message, detail) ==
    [success |-> FALSE, message |-> message, detail |-> detail,
     jd_technical |-> {}, jd_soft |-> {}, resume_technical |-> {}, suggestions |-> JAbsent]

NoData == Failure("none", "none")

\* an exception that leaves the function instead of a returned pair
Raised(detail) == Failure("raised", detail)

\* an analyze_with_gemini whose try block ends before the parsing
AnalyzeWithGemini_Uncaught(key, reply) ==
    IF ~key THEN Failure("Error: GEMINI_API_KEY environment variable not set on the server.", "none")
    ELSE IF reply.kind = "raises" THEN Failure("Gemini API Error", GeminiError(reply))
    ELSE IF GeminiError(reply) # "none" THEN Raised(GeminiError(reply))
    ELSE [success |-> TRUE, message |-> "none", detail |-> "none",
          jd_technical |-> SkillSet(reply.jd_technical_skills),
          jd_soft |-> SkillSet(reply.jd_soft_skills),
          resume_technical |-> SkillSet(reply.resume_technical_skills),
          suggestions |-> reply.suggestions]

\* what analyze_with_gemini returns, given the key and the model's reply
AnalyzeWithGemini(key, reply) ==
    IF ~key THEN Failure("Error: GEMINI_API_KEY environment variable not set on the server.", "none")
    ELSE IF GeminiError(reply) # "none" THEN Failure("Gemini API Error", GeminiError(reply))
    ELSE [success |-> TRUE, message |-> "none", detail |-> "none",
          jd_technical |-> SkillSet(reply.jd_technical_skills),
          jd_soft |-> SkillSet(reply.jd_soft_skills),
          resume_technical |-> SkillSet(reply.resume_technical_skills),
          suggestions |-> reply.suggestions]

-----------------------------------------------------------------------------
(* The matching step, the chart and the report of analyze_documents *)

\* resume_technical.intersection(jd_technical)
Matched(resume_technical, jd_technical) == resume_technical \cap jd_technical

\* a difference taken the wrong way round
Missing_Swapped(jd_technical, resume_technical) == resume_technical \ jd_technical

\* jd_technical.difference(resume_technical)
Missing(jd_technical, resume_technical) == jd_technical \ resume_technical

\* a score taken with floor division
MatchScore_FloorDiv(matched, jd_technical) ==
    IF jd_technical # {}
    THEN [num |-> (Cardinality(matched) \div Cardinality(jd_technical)) * 100, den |-> 1]
    ELSE [num |-> 0, den |-> 1]

\* (len(matched_technical) / len(jd_technical)) * 100 if jd_technical else 0,
\* kept as the fraction num/den
MatchScore(matched, jd_technical) ==
    IF jd_technical # {}
    THEN [num |-> Cardinality(matched) * 100, den |-> Cardinality(jd_technical)]
    ELSE [num |-> 0, den |-> 1]

\* f"{match_score:.1f}": the tenths of a percent printed, ties to even
Format1f(x) ==
    LET q == (10 * x.num) \div x.den
        r == (10 * x.num) % x.den
    IN  IF 2 * r > x.den THEN q + 1
        ELSE IF 2 * r = x.den /\ q % 2 = 1 THEN q + 1
        ELSE q

\* pyplot's current figure: the figure opened last among those still open
BlankFigure == [owner |-> 0, sizes |-> <<0, 0>>]
CurrentFigure(open) == IF open = <<>> THEN BlankFigure ELSE open[Len(open)]

\* Python truthiness of `suggestions`
SuggestionsTruthy(v) ==
    CASE v.kind = "list" -> v.items # <<>>
      [] v.kind = "str"  -> v.items[1].s # <<>>
      [] v.kind = "num"  -> TRUE
      [] OTHER           -> FALSE

NoReport ==
    [score |-> <<>>, suggestions |-> "none", matched |-> {}, missing |-> {},
     soft |-> {}, learning |-> {}]

\* the pair analyze_documents returns: the chart path and the markdown text
Returned(chart, kind, detail, report) ==
    [chart |-> chart, kind |-> kind, detail |-> detail, report |-> report]

NoResult == Returned(<<>>, "pending", "none", NoReport)

\* the report text, by its parts
Report(score, suggestions, matched, missing, soft) ==
    [score |-> <<Format1f(score)>>,
     suggestions |-> IF SuggestionsTruthy(suggestions) THEN "listed"
                     ELSE "No specific suggestions were generated.",
     matched |-> matched, missing |-> missing, soft |-> soft,
     learning |-> missing]

-----------------------------------------------------------------------------
(* The request threads *)

Procs == DOMAIN pc

Emit(p, evs) == events' = [events EXCEPT ![p] = @ \o evs]

Return(p, r) ==
    /\ result' = [result EXCEPT ![p] = r]
    /\ pc' = [pc EXCEPT ![p] = "done"]

InitFor(procs) ==
    /\ api_key \in BOOLEAN
    /\ clock = 0
    /\ files = <<>>
    /\ figs = <<>>
    /\ pc = [p \in procs |-> "idle"]
    /\ entry = [p \in procs |-> "none"]
    /\ resume_pdf = [p \in procs |-> NoPdf]
    /\ jd_pdf = [p \in procs |-> NoPdf]
    /\ resume_text = [p \in procs |-> EmptyText]
    /\ jd_text = [p \in procs |-> EmptyText]
    /\ response = [p \in procs |-> NoReply]
    /\ prompt = [p \in procs |-> <<>>]
    /\ data = [p \in procs |-> NoData]
    /\ matched_technical = [p \in procs |-> {}]
    /\ missing_technical = [p \in procs |-> {}]
    /\ match_score = [p \in procs |-> [num |-> 0, den |-> 1]]
    /\ chart_path = [p \in procs |-> <<>>]
    /\ result = [p \in procs |-> NoResult]
    /\ events = [p \in procs |-> <<>>]

\* time passes
Tick ==
    /\ clock < MaxClock
    /\ clock' = clock + 1
    /\ UNCHANGED <<api_key, files, figs, pc, entry, resume_pdf, jd_pdf, resume_text,
                   jd_text, prompt, response, data, matched_technical,
                   missing_technical, match_score, chart_path, result, events>>

\* a credential check that lets every request through
KeyMissing_Never(key) == FALSE

\* not os.environ.get('GEMINI_API_KEY')
KeyMissing(key) == ~key

\* an input check that asks for one document only
InputMissing_Either(resume, jd) == ~Truthy(resume) /\ ~Truthy(jd)

\* not resume_pdf or not jd_pdf
InputMissing(resume, jd) == ~Truthy(resume) \/ ~Truthy(jd)

\* analyze_documents is called: the two checks and the first progress updates
AnalyzeDocuments(p, resume, jd) ==
    /\ pc[p] = "idle"
    /\ entry' = [entry EXCEPT ![p] = "analyze_documents"]
    /\ resume_pdf' = [resume_pdf EXCEPT ![p] = resume]
    /\ jd_pdf' = [jd_pdf EXCEPT ![p] = jd]
    /\ IF InputMissing(resume, jd)
       THEN /\ Return(p, Returned(<<>>, "Please upload both your Resume and the Job Description.",
                                  "none", NoReport))
            /\ UNCHANGED events
       ELSE IF KeyMissing(api_key)
       THEN /\ Return(p, Returned(<<>>, "Configuration Error", "none", NoReport))
            /\ UNCHANGED events
       ELSE /\ Emit(p, <<"progress 0", "progress 0.2">>)
            /\ pc' = [pc EXCEPT ![p] = "extract"]
            /\ UNCHANGED result
    /\ UNCHANGED <<api_key, clock, files, figs, resume_text, jd_text, prompt, response,
                   data, matched_technical, missing_technical, match_score, chart_path>>

\* the two calls of extract_text_from_pdf
ExtractTexts(p) ==
    /\ pc[p] = "extract"
    /\ LET rt == ExtractTextFromPdf(resume_pdf[p])
           jt == ExtractTextFromPdf(jd_pdf[p])
       IN  /\ resume_text' = [resume_text EXCEPT ![p] = rt]
           /\ jd_text' = [jd_text EXCEPT ![p] = jt]
           /\ IF "raised" \in {rt.kind, jt.kind}
              THEN /\ Emit(p, <<"extract_text_from_pdf">>)
                   /\ pc' = [pc EXCEPT ![p] = "raised"]
              ELSE /\ Emit(p, <<"extract_text_from_pdf", "extract_text_from_pdf",
                                "progress 0.4">>)
                   /\ pc' = [pc EXCEPT ![p] = "gemini"]
    /\ UNCHANGED <<api_key, clock, files, figs, entry, resume_pdf, jd_pdf, prompt, response,
                   data, matched_technical, missing_technical, match_score, chart_path,
                   result>>

\* a check that lets an empty set of requirements through
NoRequirements_Never(jd_technical) == FALSE

\* not jd_technical
NoRequirements(jd_technical) == jd_technical = {}

\* the call of analyze_with_gemini, the model answering `reply`, and the two
\* checks on what it returns
AnalyzeStep(p, reply) ==
    /\ pc[p] = "gemini"
    /\ LET d == AnalyzeWithGemini(api_key, reply) IN
       /\ data' = [data EXCEPT ![p] = d]
       /\ prompt' = [prompt EXCEPT ![p] = IF api_key THEN <<resume_text[p], jd_text[p]>> ELSE @]
       /\ response' = [response EXCEPT ![p] = IF api_key THEN reply ELSE @]
       /\ IF d.message = "raised"
          THEN /\ Emit(p, <<"generate_content">>)
               /\ pc' = [pc EXCEPT ![p] = "raised"]
               /\ UNCHANGED result
          ELSE IF ~d.success
          THEN /\ Emit(p, IF api_key THEN <<"generate_content">> ELSE <<>>)
               /\ Return(p, Returned(<<>>, "Analysis Failed", d.detail, NoReport))
          ELSE IF NoRequirements(d.jd_technical)
          THEN /\ Emit(p, <<"generate_content">>)
               /\ Return(p, Returned(<<>>, "Analysis failed: no required technical skills",
                                     "none", NoReport))
          ELSE /\ Emit(p, <<"generate_content", "progress 0.7">>)
               /\ pc' = [pc EXCEPT ![p] = "match"]
               /\ UNCHANGED result
    /\ UNCHANGED <<api_key, clock, files, figs, entry, resume_pdf, jd_pdf, resume_text,
                   jd_text, matched_technical, missing_technical, match_score, chart_path>>

\* matched_technical, missing_technical and match_score are computed
Match(p) ==
    /\ pc[p] = "match"
    /\ LET m == Matched(data[p].resume_technical, data[p].jd_technical) IN
       /\ matched_technical' = [matched_technical EXCEPT ![p] = m]
       /\ missing_technical' =
              [missing_technical EXCEPT ![p] = Missing(data[p].jd_technical,
                                                       data[p].resume_technical)]
       /\ match_score' = [match_score EXCEPT ![p] = MatchScore(m, data[p].jd_technical)]
    /\ pc' = [pc EXCEPT ![p] = "chart"]
    /\ UNCHANGED <<api_key, clock, files, figs, entry, resume_pdf, jd_pdf, resume_text,
                   jd_text, prompt, response, data, chart_path, result, events>>

\* create_pie_chart up to ax.set_title: the figure is opened and drawn
ChartFigure(p) ==
    /\ pc[p] = "chart"
    /\ LET sizes == <<Cardinality(matched_technical[p]), Cardinality(missing_technical[p])>> IN
       IF sizes = <<0, 0>>
       THEN /\ chart_path' = [chart_path EXCEPT ![p] = <<>>]
            /\ Emit(p, <<"progress 0.9">>)
            /\ pc' = [pc EXCEPT ![p] = "report"]
            /\ UNCHANGED figs
       ELSE /\ figs' = Append(figs, [owner |-> p, sizes |-> sizes])
            /\ pc' = [pc EXCEPT ![p] = "savefig"]
            /\ UNCHANGED <<chart_path, events>>
    /\ UNCHANGED <<api_key, clock, files, entry, resume_pdf, jd_pdf, resume_text, jd_text,
                   prompt, response, data, matched_technical, missing_technical, match_score,
                   result>>

\* f"/tmp/skill_chart_{int(time.time())}.png"
ChartFile(now) == <<now>>

\* plt.savefig(filepath): pyplot's current figure is written to the file
ChartSave(p) ==
    /\ pc[p] = "savefig"
    /\ LET filepath == ChartFile(clock) IN
       /\ files' = [f \in DOMAIN files \cup {filepath} |->
                       IF f = filepath THEN CurrentFigure(figs).sizes ELSE files[f]]
       /\ chart_path' = [chart_path EXCEPT ![p] = filepath]
    /\ Emit(p, <<"savefig">>)
    /\ pc' = [pc EXCEPT ![p] = "closefig"]
    /\ UNCHANGED <<api_key, clock, figs, entry, resume_pdf, jd_pdf, resume_text, jd_text,
                   prompt, response, data, matched_technical, missing_technical, match_score,
                   result>>

\* plt.close(fig), and create_pie_chart returns
ChartClose(p) ==
    /\ pc[p] = "closefig"
    /\ figs' = SelectSeq(figs, LAMBDA f : f.owner # p)
    /\ Emit(p, <<"progress 0.9">>)
    /\ pc' = [pc EXCEPT ![p] = "report"]
    /\ UNCHANGED <<api_key, clock, files, entry, resume_pdf, jd_pdf, resume_text, jd_text,
                   prompt, response, data, matched_technical, missing_technical, match_score,
                   chart_path, result>>

\* get_learning_resources and the report; iterating a number raises TypeError
BuildReport(p) ==
    /\ pc[p] = "report"
    /\ IF data[p].suggestions.kind = "num"
       THEN /\ Emit(p, <<"get_learning_resources">>)
            /\ pc' = [pc EXCEPT ![p] = "raised"]
            /\ UNCHANGED result
       ELSE /\ Emit(p, <<"get_learning_resources", "progress 1">>)
            /\ Return(p, Returned(chart_path[p], "Resume Analysis Report", "none",
                                  Report(match_score[p], data[p].suggestions,
                                         matched_technical[p], missing_technical[p],
                                         data[p].jd_soft)))
    /\ UNCHANGED <<api_key, clock, files, figs, entry, resume_pdf, jd_pdf, resume_text,
                   jd_text, prompt, response, data, matched_technical,
                   missing_technical, match_score, chart_path>>

\* extract_text_from_pdf called on its own
CallExtractText(p, pdf_file) ==
    /\ pc[p] = "idle"
    /\ entry' = [entry EXCEPT ![p] = "extract_text_from_pdf"]
    /\ resume_pdf' = [resume_pdf EXCEPT ![p] = pdf_file]
    /\ resume_text' = [resume_text EXCEPT ![p] = ExtractTextFromPdf(pdf_file)]
    /\ pc' = [pc EXCEPT ![p] = IF ExtractTextFromPdf(pdf_file).kind = "raised"
                                THEN "raised" ELSE "done"]
    /\ UNCHANGED <<api_key, clock, files, figs, jd_pdf, jd_text, prompt, response, data,
                   matched_technical, missing_technical, match_score, chart_path,
                   result, events>>

\* analyze_with_gemini called on its own
CallAnalyzeWithGemini(p, reply) ==
    /\ pc[p] = "idle"
    /\ entry' = [entry EXCEPT ![p] = "analyze_with_gemini"]
    /\ LET d == AnalyzeWithGemini(api_key, reply) IN
       /\ data' = [data EXCEPT ![p] = d]
       /\ prompt' = [prompt EXCEPT ![p] = IF api_key THEN <<EmptyText, EmptyText>> ELSE @]
       /\ response' = [response EXCEPT ![p] = IF api_key THEN reply ELSE @]
       /\ Emit(p, IF api_key THEN <<"generate_content">> ELSE <<>>)
       /\ pc' = [pc EXCEPT ![p] = IF d.message = "raised" THEN "raised" ELSE "done"]
    /\ UNCHANGED <<api_key, clock, files, figs, resume_pdf, jd_pdf, resume_text, jd_text,
                   matched_technical, missing_technical, match_score, chart_path, result>>

-----------------------------------------------------------------------------
(* One request at a time, over every upload and every reply *)

Init == InitFor({1})

Next ==
    \/ Tick
    \/ \E p \in Procs : \E resume \in Pdfs, jd \in Pdfs : AnalyzeDocuments(p, resume, jd)
    \/ \E p \in Procs : ExtractTexts(p)
    \/ \E p \in Procs : \E reply \in Replies : AnalyzeStep(p, reply)
    \/ \E p \in Procs : Match(p)
    \/ \E p \in Procs : ChartFigure(p)
    \/ \E p \in Procs : ChartSave(p)
    \/ \E p \in Procs : ChartClose(p)
    \/ \E p \in Procs : BuildReport(p)
    \/ \E p \in Procs : \E pdf_file \in Pdfs : CallExtractText(p, pdf_file)
    \/ \E p \in Procs : \E reply \in Replies : CallAnalyzeWithGemini(p, reply)

Spec == Init /\ [][Next]_vars

-----------------------------------------------------------------------------
(* Two requests in flight, over a few uploads and replies *)

ConcPdfs == {NoPdf, PdfOf(2)}

ConcReplies ==
    { ReplyNotJson,
      ObjectReply(JList(<<>>), SoftList, RsOne, AdviceList),
      ObjectReply(JList(<<StrElem(Str_Python), StrElem(Str_AWS), StrElem(Str_terraform)>>),
                  SoftList,
                  JList(<<StrElem(Str_Python), StrElem(Str_AWS)>>), AdviceList),
      ObjectReply(JdOne, SoftList, JList(<<>>), JNum) }

InitConc == InitFor({1, 2})

NextConc ==
    \/ Tick
    \/ \E p \in Procs : \E resume \in ConcPdfs, jd \in ConcPdfs : AnalyzeDocuments(p, resume, jd)
    \/ \E p \in Procs : ExtractTexts(p)
    \/ \E p \in Procs : \E reply \in ConcReplies : AnalyzeStep(p, reply)
    \/ \E p \in Procs : Match(p)
    \/ \E p \in Procs : ChartFigure(p)
    \/ \E p \in Procs : ChartSave(p)
    \/ \E p \in Procs : ChartClose(p)
    \/ \E p \in Procs : BuildReport(p)

SpecConc == InitConc /\ [][NextConc]_vars

-----------------------------------------------------------------------------
(* Properties *)

Has(p, e) == \E i \in DOMAIN events[p] : events[p][i] = e

\* the matching step of analyze_documents has run in thread p
AfterMatch(p) == Has(p, "progress 0.7") /\ pc[p] # "match"

Str_aws == <<"a", "w", "s">>

\* C1: once the matching step has run, matched is candidate /\ required, missing is
\* required minus candidate, their union is required and they are disjoint
C1_MatchedMissingPartition ==
    \A p \in Procs :
        AfterMatch(p) =>
            LET required  == data[p].jd_technical
                candidate == data[p].resume_technical
            IN  /\ matched_technical[p] = candidate \cap required
                /\ missing_technical[p] = required \ candidate
                /\ matched_technical[p] \cup missing_technical[p] = required
                /\ matched_technical[p] \cap missing_technical[p] = {}

\* the matching step has run on sets that overlap without one holding the other
C1_Witness ==
    \E p \in Procs :
        /\ AfterMatch(p)
        /\ matched_technical[p] # {}
        /\ missing_technical[p] # {}
        /\ data[p].resume_technical \ data[p].jd_technical # {}

\* C2: once the matching step has run, required is not empty, the score is
\* 100 * |matched| / |required|, it lies in 0..100 with 0 <= |matched| <= |required|,
\* the report prints it to one decimal, and required = {python, aws, terraform} with
\* candidate = {python, aws} gives matched = {python, aws}, missing = {terraform}
\* and a printed 66.7
C2_ScoreIsRatioWithinRange ==
    \A p \in Procs :
        AfterMatch(p) =>
            LET required == data[p].jd_technical
                m        == Cardinality(matched_technical[p])
                r        == Cardinality(required)
            IN  /\ r > 0
                /\ 0 <= m /\ m <= r
                /\ match_score[p].den > 0
                /\ match_score[p].num * r = 100 * m * match_score[p].den
                /\ 0 <= match_score[p].num
                /\ match_score[p].num <= 100 * match_score[p].den
                /\ result[p].kind = "Resume Analysis Report" =>
                      /\ Len(result[p].report.score) = 1
                      /\ result[p].report.score[1] \in 0 .. 1000
                      /\ 2 * r * result[p].report.score[1] - 2000 * m \in (0 - r) .. r
                /\ (required = {Str_python, Str_aws, Str_terraform}
                      /\ data[p].resume_technical = {Str_python, Str_aws}) =>
                      /\ matched_technical[p] = {Str_python, Str_aws}
                      /\ missing_technical[p] = {Str_terraform}
                      /\ result[p].kind = "Resume Analysis Report" =>
                            result[p].report.score = <<667>>

\* the report of the scenario is returned
C2_Witness ==
    \E p \in Procs :
        /\ pc[p] = "done"
        /\ data[p].jd_technical = {Str_python, Str_aws, Str_terraform}
        /\ data[p].resume_technical = {Str_python, Str_aws}
        /\ result[p].report.score = <<667>>

\* thread p has run none of the matching, chart, learning-resource and report steps
NothingComputed(p) ==
    /\ ~Has(p, "progress 0.7") /\ ~Has(p, "savefig") /\ ~Has(p, "progress 0.9")
    /\ ~Has(p, "get_learning_resources") /\ ~Has(p, "progress 1")
    /\ matched_technical[p] = {} /\ missing_technical[p] = {}
    /\ chart_path[p] = <<>>
    /\ \A i \in DOMAIN figs : figs[i].owner # p
    /\ result[p].chart = <<>>
    /\ result[p].report = NoReport

\* C3: when analyze_with_gemini returns an empty set of required technical skills,
\* analyze_documents returns None and the failure message, with no score or report,
\* and the matching, chart and learning-resource steps do not run
C3_NoRequirementsFound ==
    \A p \in Procs :
        (entry[p] = "analyze_documents" /\ data[p].success /\ data[p].jd_technical = {}) =>
            /\ pc[p] = "done"
            /\ result[p].kind = "Analysis failed: no required technical skills"
            /\ NothingComputed(p)

\* the model answered with an empty list of required skills
C3_Witness ==
    \E p \in Procs :
        /\ entry[p] = "analyze_documents"
        /\ pc[p] = "done"
        /\ response[p].jd_technical_skills = JList(<<>>)
        /\ data[p].success
        /\ data[p].resume_technical # {}

\* C4: with the credential absent generate_content is never called, and a call of
\* analyze_documents with both documents returns the configuration error with no
\* text extracted, no progress update and no call made
C4_ConfigurationErrorBeforeAnyCall ==
    \A p \in Procs :
        ~api_key =>
            /\ ~Has(p, "generate_content")
            /\ response[p] = NoReply
            /\ (entry[p] = "analyze_documents" /\ Truthy(resume_pdf[p]) /\ Truthy(jd_pdf[p])) =>
                  /\ pc[p] = "done"
                  /\ result[p].kind = "Configuration Error"
                  /\ events[p] = <<>>
                  /\ resume_text[p] = EmptyText /\ jd_text[p] = EmptyText
                  /\ data[p] = NoData
                  /\ NothingComputed(p)

\* analyze_documents has returned for two documents and no credential
C4_Witness ==
    \E p \in Procs :
        /\ ~api_key
        /\ entry[p] = "analyze_documents"
        /\ Truthy(resume_pdf[p]) /\ Truthy(jd_pdf[p])
        /\ pc[p] = "done"

\* the model call raised, or its text is not JSON
CallFailed(p) ==
    \/ response[p].kind = "raises"
    \/ response[p].kind = "text" /\ response[p].body = "invalid"

\* C5: when the model call raises or answers text that is not JSON,
\* analyze_with_gemini returns False with the error detail in its message, no
\* exception leaves it, and analyze_documents returns None and "Analysis Failed"
\* with that detail, before any matching, score, chart or report
C5_ExtractionFailureHalts ==
    \A p \in Procs :
        CallFailed(p) =>
            /\ pc[p] = "done"
            /\ ~data[p].success
            /\ data[p].message = "Gemini API Error"
            /\ data[p].detail = IF response[p].kind = "raises" THEN "ProviderError"
                                ELSE "JSONDecodeError"
            /\ entry[p] = "analyze_documents" =>
                  /\ result[p].kind = "Analysis Failed"
                  /\ result[p].detail = data[p].detail
                  /\ NothingComputed(p)

\* analyze_documents has returned after a reply that is not JSON
C5_Witness ==
    \E p \in Procs :
        /\ entry[p] = "analyze_documents"
        /\ response[p] = ReplyNotJson
        /\ pc[p] = "done"
        /\ result[p].kind = "Analysis Failed"

\* str.strip(), the trimming the specification asks of a skill name
RECURSIVE Strip(_)
Strip(s) ==
    IF s = <<>> THEN s
    ELSE IF s[1] = " " THEN Strip(Tail(s))
    ELSE IF s[Len(s)] = " " THEN Strip(SubSeq(s, 1, Len(s) - 1))
    ELSE s

\* the strings of a JSON list of strings
Names(v) == { v.items[i].s : i \in DOMAIN v.items }

\* C6: a required skill and a resume skill that differ only in case or in leading
\* or trailing whitespace are one skill: the required skill is matched, not missing
C6_CaseAndWhitespaceInsensitive ==
    \A p \in Procs :
        (AfterMatch(p) /\ response[p] \in ShapedReplies) =>
            \A r \in Names(response[p].jd_technical_skills) :
                \A c \in Names(response[p].resume_technical_skills) :
                    Strip(Lower(r)) = Strip(Lower(c)) =>
                        /\ Lower(r) \in matched_technical[p]
                        /\ Lower(r) \notin missing_technical[p]

\* a value that is a list of strings
ListOfStrings(v) == v.kind = "list" /\ \A i \in DOMAIN v.items : v.items[i].t = "str"

\* the reply is one JSON object with the four keys, each a list of strings
ExpectedShape(reply) ==
    /\ reply.kind = "text"
    /\ reply.body = "object"
    /\ ListOfStrings(reply.jd_technical_skills)
    /\ ListOfStrings(reply.jd_soft_skills)
    /\ ListOfStrings(reply.resume_technical_skills)
    /\ ListOfStrings(reply.suggestions)

\* C7: analyze_with_gemini returns failure for every reply that is not of the
\* expected shape
C7_UnexpectedShapeFails ==
    \A p \in Procs :
        (response[p] # NoReply /\ ~ExpectedShape(response[p])) => ~data[p].success

\* C8: when a document is not supplied analyze_documents returns None and the
\* message asking for both, whether or not the credential is set, and nothing is
\* extracted, called, reported as progress or drawn
C8_MissingInputFirst ==
    \A p \in Procs :
        (entry[p] = "analyze_documents" /\ (~Truthy(resume_pdf[p]) \/ ~Truthy(jd_pdf[p]))) =>
            /\ pc[p] = "done"
            /\ result[p].kind = "Please upload both your Resume and the Job Description."
            /\ events[p] = <<>>
            /\ resume_text[p] = EmptyText /\ jd_text[p] = EmptyText
            /\ response[p] = NoReply /\ prompt[p] = <<>> /\ data[p] = NoData
            /\ NothingComputed(p)

\* one document is missing and the credential is absent too
C8_Witness ==
    \E p \in Procs :
        /\ entry[p] = "analyze_documents"
        /\ Truthy(resume_pdf[p]) /\ ~Truthy(jd_pdf[p])
        /\ ~api_key
        /\ pc[p] = "done"

\* the text extract_text_from_pdf is to return for an upload
TextFor(pdf_file) ==
    CASE pdf_file.kind = "none"    -> EmptyText
      [] pdf_file.kind = "corrupt" -> ErrorText
      [] OTHER                     -> TextOf(IF pdf_file.pages < 5 THEN pdf_file.pages ELSE 5)

\* C9: extract_text_from_pdf returns the empty string for no document and the
\* inline error string for a PDF that cannot be parsed, no exception leaves it, and
\* analyze_documents goes on to the model call with that string in the prompt
C9_PdfFailureIsInlineText ==
    \A p \in Procs :
        /\ (entry[p] = "extract_text_from_pdf") =>
              pc[p] = "done" /\ resume_text[p] = TextFor(resume_pdf[p])
        /\ (entry[p] = "analyze_documents" /\ Has(p, "extract_text_from_pdf")) =>
              /\ Has(p, "progress 0.4")
              /\ resume_text[p] = TextFor(resume_pdf[p])
              /\ jd_text[p] = TextFor(jd_pdf[p])
              /\ pc[p] = "gemini" \/ Has(p, "generate_content")
              /\ Has(p, "generate_content") =>
                    prompt[p] = <<TextFor(resume_pdf[p]), TextFor(jd_pdf[p])>>

\* the model was called with the error string of an unreadable resume in the prompt
C9_Witness ==
    \E p \in Procs :
        /\ entry[p] = "analyze_documents"
        /\ resume_pdf[p] = CorruptPdf
        /\ Has(p, "generate_content")
        /\ prompt[p][1] = ErrorText

\* extract_text_from_pdf, called on no document, returned the empty string
C9_WitnessMissingDocument ==
    \E p \in Procs :
        /\ entry[p] = "extract_text_from_pdf"
        /\ pc[p] = "done"
        /\ resume_pdf[p] = NoPdf
        /\ resume_text[p] = EmptyText

\* C10: the file of a chart path that a call of analyze_documents has returned,
\* showing the matched and missing counts of that call, is not altered afterwards
C10_ReturnedChartNeverAltered ==
    [][ \A p \in Procs :
          (/\ pc[p] = "done"
           /\ result[p].chart \in DOMAIN files
           /\ files[result[p].chart] =
                  <<Cardinality(matched_technical[p]), Cardinality(missing_technical[p])>>)
          => files'[result[p].chart] = files[result[p].chart] ]_vars

====
